---- MODULE Spec2Model ----
(***************************************************************************)
(* A model of stir, the PyMOL plugin layer for Martini systems:            *)
(*   - src/stir/mt_nice.py       mt_sele, mt_color, set_vdw, mt_nice       *)
(*   - src/stir/store_settings.py  store_settings                          *)
(*   - src/stir/stir.py          the launcher's main                       *)
(*                                                                         *)
(* The host (PyMOL) is modelled by the part of its state the plugin reads  *)
(* and writes: the named selections, the stick_radius setting and, per     *)
(* atom, the van-der-Waals radius, the color and the set of shown          *)
(* representations.  Every handler is one action; the host calls a handler *)
(* issues are recorded, in order, in the variable calls.                   *)
(*                                                                         *)
(* Radii are in hundredths (2.35 is 235); strings the code looks into      *)
(* (bead codes, atom names, setting names, typed answers) are sequences of *)
(* one-character strings.                                                  *)
(***************************************************************************)
EXTENDS Integers, Sequences, FiniteSets, TLC

VARIABLES
    sele,          \* host: named selections, name -> set of atoms
    stick_radius,  \* host: the stick_radius setting (hundredths)
    vdw,           \* host: atom -> van-der-Waals radius (hundredths)
    color,         \* host: atom -> color handle
    rep,           \* host: atom -> set of shown representations
    tmp_dict,      \* stored.tmp_dict, the value -> color memo of mt_color
    memo_at_draw,  \* stored.tmp_dict as the last cmd.iterate of mt_color found it
    calls,         \* the host calls issued by the last command, in order
    out,           \* what the last command printed or raised
    last,          \* the last command: [op, arg, sel, again]
    ncalls,        \* commands issued so far
    vdw_elem,      \* alter_vdw alone: its bead code argument
    vdw_fallback,  \* alter_vdw alone: its radius argument
    vdw_result,    \* alter_vdw alone: what it returned (-1 before the call)
    name_list,     \* pymol.setting.name_list
    setting_value, \* get_setting: setting name -> typed value
    file,          \* store_settings: the file it was given and the lines written
    raised,        \* store_settings: the exception it ended with, if any
    pc,            \* launcher: position in main
    args,          \* launcher: the parsed command line
    asked,         \* launcher: answers read from input() so far
    launched,      \* launcher: pymol.finish_launching() was called
    exit_status    \* launcher: status of exit(), -1 while running

vars == <<sele, stick_radius, vdw, color, rep, tmp_dict, memo_at_draw, calls, out,
          last, ncalls, vdw_elem, vdw_fallback, vdw_result, name_list,
          setting_value, file, raised, pc, args, asked, launched, exit_status>>

hostvars == <<sele, stick_radius, vdw, color, rep, tmp_dict, memo_at_draw, calls,
              out, last, ncalls>>
vdwvars == <<vdw_elem, vdw_fallback, vdw_result>>
storevars == <<name_list, setting_value, file, raised>>
mainvars == <<pc, args, asked, launched, exit_status>>

(***************************************************************************)
(* Bounds of the model.                                                    *)
(***************************************************************************)
NumColors == 2      \* palette handles modelled, of the 26 the code registers
MaxCalls == 2       \* commands issued in one session
MaxCodeLen == 3     \* longest bead code given to alter_vdw alone
MaxSettings == 2    \* entries of name_list
MaxTraj == 1        \* trajectory files on the command line
MaxAsk == 2         \* answers typed at the low-memory prompt

(***************************************************************************)
(* The bead classifier: set_vdw.alter_vdw.                                 *)
(***************************************************************************)
R_regular == 235
R_small == 200
R_tiny == 165

Letters == {"Q", "P", "N", "C", "X", "S", "T", "W", "B", "A", "d"}
Digits == {"0", "1", "3", "4", "5"}
\* \w (and \d, which \w contains), within the characters the model uses
WordChars == Letters \cup Digits \cup {"_"}
FirstLetter == {"Q", "P", "N", "C", "X"}

\* A pattern is a set of alternatives, each a sequence of character classes.
Regular == {<<FirstLetter, WordChars>>, <<{"W"}>>}
Prefixed(c, pattern) == {<<{c}>> \o alt : alt \in pattern}

\* vdw_patterns, in the dict's order
vdw_patterns == << [pattern |-> Regular, radius |-> R_regular],
                   [pattern |-> Prefixed("S", Regular), radius |-> R_small],
                   [pattern |-> Prefixed("T", Regular), radius |-> R_tiny] >>

\* the alternative alt matches s at offset k (0 is the start of s)
MatchesAt(alt, s, k) ==
    /\ Len(s) >= k + Len(alt)
    /\ \A i \in 1..Len(alt) : s[k + i] \in alt[i]

\* pattern.search(s): a match anywhere in s
re_search(pattern, s) ==
    \E alt \in pattern : \E k \in 0..Len(s) : MatchesAt(alt, s, k)

\* pattern.match(s): a match at the start of s
re_match(pattern, s) == \E alt \in pattern : MatchesAt(alt, s, 0)

RECURSIVE first_match(_, _, _)
first_match(elem, fallback, i) ==
    IF i > Len(vdw_patterns) THEN fallback
    ELSE IF re_match(vdw_patterns[i].pattern, elem) THEN vdw_patterns[i].radius
    ELSE first_match(elem, fallback, i + 1)

alter_vdw(elem, fallback) == first_match(elem, fallback, 1)

(***************************************************************************)
(* The molecular system loaded in the host: a small Martini system.  An    *)
(* atom's name, residue, chain, class and bead code never change; its      *)
(* radius, color and representations are host state.  cls is the host's    *)
(* classification of the residue (polymer.protein, polymer.nucleic,        *)
(* organic, or none of them for solvent and ions).                         *)
(***************************************************************************)
Atoms == <<
    [name |-> <<"B", "B">>, resn |-> "LYS", resi |-> "1", chain |-> "A",
     cls |-> "polymer.protein", elem |-> <<"P", "5">>],
    [name |-> <<"B", "B">>, resn |-> "ALA", resi |-> "2", chain |-> "A",
     cls |-> "polymer.protein", elem |-> <<"S", "N", "0">>],
    [name |-> <<"S", "C", "1">>, resn |-> "LYS", resi |-> "1", chain |-> "A",
     cls |-> "polymer.protein", elem |-> <<"T", "C", "3">>],
    [name |-> <<"C", "A">>, resn |-> "GLY", resi |-> "3", chain |-> "A",
     cls |-> "polymer.protein", elem |-> <<"C">>],
    [name |-> <<"W">>, resn |-> "W", resi |-> "4", chain |-> "",
     cls |-> "none", elem |-> <<"P", "4">>],
    [name |-> <<"N", "A", "+">>, resn |-> "ION", resi |-> "5", chain |-> "",
     cls |-> "none", elem |-> <<"Q", "d">>] >>

AtomIds == 1..Len(Atoms)

\* the atoms of S in the order the host visits them
InOrder(S) == SelectSeq([i \in AtomIds |-> i], LAMBDA a : a \in S)

\* the atom property an iterate or alter expression names
Attr(method, a) ==
    CASE method = "chain" -> Atoms[a].chain
      [] method = "resn" -> Atoms[a].resn
      [] method = "resi" -> Atoms[a].resi
      [] method = "name" -> Atoms[a].name

\* the selection expressions the commands are given
Selections == {"all", "chain A"}

SelAtoms(selection) ==
    CASE selection = "all" -> AtomIds
      [] selection = "chain A" -> {a \in AtomIds : Atoms[a].chain = "A"}
      [] selection = "resn W+ION" -> {a \in AtomIds : Atoms[a].resn \in {"W", "ION"}}

(***************************************************************************)
(* nice_settings: the palette, the selectors and the presets.              *)
(***************************************************************************)
ColorNames == <<"mt_color_0", "mt_color_1", "mt_color_2", "mt_color_3",
                "mt_color_4", "mt_color_5", "mt_color_6", "mt_color_7",
                "mt_color_8", "mt_color_9", "mt_color_10", "mt_color_11",
                "mt_color_12", "mt_color_13", "mt_color_14", "mt_color_15",
                "mt_color_16", "mt_color_17", "mt_color_18", "mt_color_19",
                "mt_color_20", "mt_color_21", "mt_color_22", "mt_color_23",
                "mt_color_24", "mt_color_25">>

\* stored.mt_colors: the handles of the registered colors
mt_colors == {ColorNames[i] : i \in 1..NumColors}

\* the keys of stored.mt_selectors, in the dict's order
mt_selectors == <<"prot", "BB", "SC", "solv", "ions", "lip", "nucl">>

\* s starts with prefix
StartsWith(s, prefix) ==
    /\ Len(s) >= Len(prefix)
    /\ \A i \in 1..Len(prefix) : s[i] = prefix[i]

\* atom a satisfies the selection expression of selector g, the host holding
\* the named selections named (lip's expression names the selection ions)
SelectorLogic(g, a, named) ==
    CASE g = "prot" -> Atoms[a].cls = "polymer.protein"
      [] g = "BB" -> Atoms[a].cls = "polymer.protein" /\ Atoms[a].name = <<"B", "B">>
      [] g = "SC" -> Atoms[a].cls = "polymer.protein" /\ StartsWith(Atoms[a].name, <<"S", "C">>)
      [] g = "solv" -> Atoms[a].resn \in {"W", "WN", "ION"}
      [] g = "ions" -> Atoms[a].resn = "ION"
      [] g = "lip" -> /\ Atoms[a].cls = "organic"
                      /\ ~("ions" \in DOMAIN named /\ a \in named["ions"])
      [] g = "nucl" -> Atoms[a].cls = "polymer.nucleic"

None == << >>

PresetNames == {"clean", "rainbow", "balls"}

\* stored.mt_nice_set[style][g]
mt_nice_set(style, g) ==
    CASE style = "clean" ->
           (CASE g = "prot" -> [color_method |-> None, style |-> None]
              [] g = "BB" -> [color_method |-> <<"mt_color", "chain">>,
                              style |-> <<"show_as", "sticks">>]
              [] g = "SC" -> [color_method |-> None, style |-> <<"hide", "everything">>]
              [] g = "solv" -> [color_method |-> None, style |-> <<"hide", "everything">>]
              [] g = "ions" -> [color_method |-> None, style |-> <<"hide", "everything">>]
              [] g = "lip" -> [color_method |-> <<"mt_color", "resn">>,
                               style |-> <<"show_as", "sticks">>]
              [] g = "nucl" -> [color_method |-> <<"mt_color", "resi">>,
                                style |-> <<"show_as", "sticks">>])
      [] style = "rainbow" ->
           (CASE g = "prot" -> [color_method |-> None, style |-> None]
              [] g = "BB" -> [color_method |-> <<"mt_color", "chain">>,
                              style |-> <<"show_as", "sticks">>]
              [] g = "SC" -> [color_method |-> <<"mt_color", "resn">>,
                              style |-> <<"show_as", "sticks">>]
              [] g = "solv" -> [color_method |-> <<"color", "blue">>,
                                style |-> <<"show_as", "nb_spheres">>]
              [] g = "ions" -> [color_method |-> <<"mt_color", "name">>,
                                style |-> <<"show_as", "nb_spheres">>]
              [] g = "lip" -> [color_method |-> <<"mt_color", "resi">>,
                               style |-> <<"show_as", "sticks">>]
              [] g = "nucl" -> [color_method |-> <<"mt_color", "resn">>,
                                style |-> <<"show_as", "sticks">>])
      [] style = "balls" ->
           (CASE g = "prot" -> [color_method |-> None, style |-> None]
              [] g = "BB" -> [color_method |-> <<"color", "purple">>,
                              style |-> <<"show_as", "spheres">>]
              [] g = "SC" -> [color_method |-> <<"color", "red">>,
                              style |-> <<"show_as", "spheres">>]
              [] g = "solv" -> [color_method |-> <<"color", "blue">>,
                                style |-> <<"show_as", "nb_spheres">>]
              [] g = "ions" -> [color_method |-> <<"mt_color", "resn">>,
                                style |-> <<"show_as", "nb_spheres">>]
              [] g = "lip" -> [color_method |-> <<"mt_color", "resn">>,
                               style |-> <<"show_as", "spheres">>]
              [] g = "nucl" -> [color_method |-> <<"mt_color", "resi">>,
                                style |-> <<"show_as", "spheres">>])

\* the keys of a preset, in the dict's order
reversed_order == <<"nucl", "lip", "ions", "solv", "SC", "BB", "prot">>
settings_order == <<"prot", "BB", "SC", "solv", "ions", "lip", "nucl">>

\* the values of one group's commands, in the dict's order
commands_values(commands) == <<commands.color_method, commands.style>>

(***************************************************************************)
(* The host state a handler works on, as one record h, and the host calls. *)
(***************************************************************************)
Host == [sele |-> sele, stick_radius |-> stick_radius, vdw |-> vdw, color |-> color,
         rep |-> rep, tmp_dict |-> tmp_dict, memo_at_draw |-> memo_at_draw,
         calls |-> << >>, out |-> ""]

\* the host was asked to do call
Issued(h, call) == [h EXCEPT !.calls = Append(h.calls, call)]

EmptyDict == << >>

\* d[k] = v of a Python dict
DictSet(d, k, v) == [x \in DOMAIN d \cup {k} |-> IF x = k THEN v ELSE d[x]]

\* F applied to the value of x: x is computed before F starts
Then(x, F(_)) == CHOOSE y \in {F(v) : v \in {x}} : TRUE

cmd_sync(h) == Issued(h, "sync")

cmd_deselect(h) == Issued(h, "deselect")

cmd_recolor(h) == Issued(h, "recolor")

\* cmd.select(name, logic): the named selection holds the atoms logic selects now
cmd_select(h, name) ==
    Issued([h EXCEPT !.sele = DictSet(h.sele, name,
                {a \in AtomIds : SelectorLogic(name, a, h.sele)})], "select")

\* cmd.delete(name): the named selection is removed, if there is one
cmd_delete(h, name) ==
    Issued([h EXCEPT !.sele = [n \in DOMAIN h.sele \ {name} |-> h.sele[n]]], "delete")

\* the setting grown by value, not set to it
cmd_set_add(h, value) == Issued([h EXCEPT !.stick_radius = h.stick_radius + value], "set")

cmd_set(h, value) == Issued([h EXCEPT !.stick_radius = value], "set")

\* the named selection alone, the command's selection dropped
ScopeOfGroup(h, S, sel_type) ==
    IF sel_type \in DOMAIN h.sele THEN h.sele[sel_type] ELSE {}

\* the atoms of "{selection} and {sel_type}"
Scope(h, S, sel_type) ==
    IF sel_type \in DOMAIN h.sele THEN S \cap h.sele[sel_type] ELSE {}

cmd_color(h, c, S) ==
    Issued([h EXCEPT !.color = [a \in AtomIds |-> IF a \in S THEN c ELSE h.color[a]]],
           "color")

\* cmd.show in place of cmd.show_as: the representation is added to those shown
cmd_show(h, r, S) ==
    Issued([h EXCEPT !.rep = [a \in AtomIds |-> IF a \in S THEN h.rep[a] \cup {r}
                                                 ELSE h.rep[a]]],
           "show_as")

cmd_show_as(h, r, S) ==
    Issued([h EXCEPT !.rep = [a \in AtomIds |-> IF a \in S THEN {r} ELSE h.rep[a]]],
           "show_as")

cmd_hide(h, S) ==
    Issued([h EXCEPT !.rep = [a \in AtomIds |-> IF a \in S THEN {} ELSE h.rep[a]]],
           "hide")

(***************************************************************************)
(* mt_sele                                                                 *)
(***************************************************************************)
RECURSIVE select_all(_, _)
select_all(h, i) ==
    IF i > Len(mt_selectors) THEN h
    ELSE select_all(cmd_select(h, mt_selectors[i]), i + 1)

RECURSIVE delete_all(_, _)
delete_all(h, i) ==
    IF i > Len(mt_selectors) THEN h
    ELSE delete_all(cmd_delete(h, mt_selectors[i]), i + 1)

\* delete is "None" for the default
mt_sele(h, delete) ==
    LET h1 == IF delete # "None"
              THEN IF delete = "delete" THEN delete_all(h, 1)
                   ELSE [h EXCEPT !.out = "Unknown option"]
              ELSE select_all(h, 1)
    IN  cmd_sync(cmd_deselect(cmd_sync(h1)))

(***************************************************************************)
(* mt_color.  r gives, for each atom cmd.iterate visits, what              *)
(* random.choice(stored.mt_colors) returns there.                          *)
(***************************************************************************)
\* cmd.iterate(selection, "stored.tmp_dict[method] = stored.r_choice(...)")
RECURSIVE iterate_draw(_, _, _, _)
iterate_draw(d, method, todo, r) ==
    IF todo = << >> THEN d
    ELSE iterate_draw(DictSet(d, Attr(method, Head(todo)), r[Head(todo)]),
                      method, Tail(todo), r)

\* the color cmd.alter's expression gives atom a: stored.tmp_dict[method]
fresh_color(d, method, a, r) == r[a]
memo_color(d, method, a, r) == d[Attr(method, a)]

\* cmd.alter(selection, "color = stored.tmp_dict[method]")
alter_color(h, method, S, r) ==
    Issued([h EXCEPT !.color = [a \in AtomIds |->
                IF a \in S THEN memo_color(h.tmp_dict, method, a, r) ELSE h.color[a]]],
           "alter")

\* stored.tmp_dict = {} after the colors are written
keep_memo(d) == d
clear_memo(d) == EmptyDict

mt_color(h, method, S, r) ==
    Then([h EXCEPT !.tmp_dict = EmptyDict], LAMBDA reset :
    Then(Issued([reset EXCEPT !.memo_at_draw = reset.tmp_dict,
                              !.tmp_dict = iterate_draw(reset.tmp_dict, method,
                                                        InOrder(S), r)],
                "iterate"), LAMBDA drawn :
    Then(cmd_sync(alter_color(drawn, method, S, r)), LAMBDA altered :
    Then([altered EXCEPT !.tmp_dict = clear_memo(altered.tmp_dict)], LAMBDA cleared :
        cmd_sync(cmd_recolor(cleared))))))

(***************************************************************************)
(* set_vdw                                                                 *)
(***************************************************************************)
set_vdw(h, S) ==
    cmd_sync(Issued([h EXCEPT !.vdw = [a \in AtomIds |->
                        IF a \in S THEN alter_vdw(Atoms[a].elem, h.vdw[a])
                        ELSE h.vdw[a]]],
                    "alter"))

(***************************************************************************)
(* mt_nice.  R gives the random choices of the mt_color calls it makes: R  *)
(* of <<group, atom>> is the choice at that atom in that group's call.     *)
(***************************************************************************)
any_style(style) == TRUE
valid_style(style) == style \in {"clean", "rainbow", "balls"}

\* command[0](*command[1:], selection=f'{selection} and {sel_type}')
run_command(h, command, S, sel_type, R) ==
    IF command = None THEN h
    ELSE CASE command[1] = "mt_color" ->
                mt_color(h, command[2], Scope(h, S, sel_type),
                         [a \in AtomIds |-> IF <<sel_type, a>> \in DOMAIN R
                                            THEN R[<<sel_type, a>>]
                                            ELSE "none"])
           [] command[1] = "color" -> cmd_color(h, command[2], Scope(h, S, sel_type))
           [] command[1] = "show_as" -> cmd_show_as(h, command[2], Scope(h, S, sel_type))
           [] command[1] = "hide" -> cmd_hide(h, Scope(h, S, sel_type))

RECURSIVE run_commands(_, _, _, _, _, _)
run_commands(h, cs, j, S, sel_type, R) ==
    IF j > Len(cs) THEN h
    ELSE Then(run_command(h, cs[j], S, sel_type, R),
              LAMBDA done : run_commands(done, cs, j + 1, S, sel_type, R))

RECURSIVE run_settings(_, _, _, _, _)
run_settings(h, style, i, S, R) ==
    IF i > Len(settings_order) THEN h
    ELSE Then(run_commands(h, commands_values(mt_nice_set(style, settings_order[i])), 1,
                           S, settings_order[i], R),
              LAMBDA done : run_settings(done, style, i + 1, S, R))

StickRadius == 70

mt_nice(h, style, selection, R) ==
    IF ~valid_style(style)
    THEN [h EXCEPT !.out = "Error: not a valid option"]
    ELSE Then(mt_sele(h, "None"), LAMBDA h1 :
         Then(cmd_sync(cmd_set(h1, StickRadius)), LAMBDA h2 :
         Then(cmd_sync(set_vdw(h2, SelAtoms(selection))), LAMBDA h3 :
            IF style \notin PresetNames
            THEN [h3 EXCEPT !.out = "KeyError"]
            ELSE run_settings(h3, style, 1, SelAtoms(selection), R))))

\* the <<group, atom>> places where mt_nice(style, selection) draws a color
DrawSites(h, style, selection) ==
    Then(mt_sele(h, "None"), LAMBDA h1 :
        {site \in (DOMAIN h1.sele) \X AtomIds :
            /\ style \in PresetNames
            /\ mt_nice_set(style, site[1]).color_method # None
            /\ mt_nice_set(style, site[1]).color_method[1] = "mt_color"
            /\ site[2] \in Scope(h1, SelAtoms(selection), site[1])})

(***************************************************************************)
(* The commands, as actions on the host.                                   *)
(***************************************************************************)
Commit(h, op, arg, selection) ==
    /\ sele' = h.sele
    /\ stick_radius' = h.stick_radius
    /\ vdw' = h.vdw
    /\ color' = h.color
    /\ rep' = h.rep
    /\ tmp_dict' = h.tmp_dict
    /\ memo_at_draw' = h.memo_at_draw
    /\ calls' = h.calls
    /\ out' = h.out
    /\ last' = [op |-> op, arg |-> arg, sel |-> selection,
                again |-> (last.op = op /\ last.arg = arg /\ last.sel = selection)]
    /\ ncalls' = ncalls + 1

Styles == PresetNames \cup {"bogus"}

Do_mt_nice(style, selection) ==
    /\ ncalls < MaxCalls
    /\ \E R \in [DrawSites(Host, style, selection) -> mt_colors] :
          Commit(mt_nice(Host, style, selection, R), "mt_nice", style, selection)
    /\ UNCHANGED <<vdwvars, storevars, mainvars>>

Do_mt_sele(delete) ==
    /\ ncalls < MaxCalls
    /\ Commit(mt_sele(Host, delete), "mt_sele", delete, "")
    /\ UNCHANGED <<vdwvars, storevars, mainvars>>

Methods == {"chain", "resn"}
ColorSelections == {"chain A", "resn W+ION"}

Do_mt_color(method, selection) ==
    /\ ncalls < MaxCalls
    /\ \E r \in [SelAtoms(selection) -> mt_colors] :
          Commit(mt_color(Host, method, SelAtoms(selection), r), "mt_color", method,
                 selection)
    /\ UNCHANGED <<vdwvars, storevars, mainvars>>

\* what the variables of the other parts hold while one part runs
IdleVdw == vdw_elem = << >> /\ vdw_fallback = 0 /\ vdw_result = -1
NoFile == [name |-> << >>, exists |-> FALSE, lines |-> << >>]
NoError == [kind |-> "None", about |-> << >>]
IdleStore == name_list = << >> /\ setting_value = << >> /\ file = NoFile /\ raised = NoError
IdleMain == /\ pc = "idle" /\ args = << >> /\ asked = << >>
            /\ launched = FALSE /\ exit_status = -1
NoCommand == [op |-> "", arg |-> "", sel |-> "", again |-> FALSE]
IdleHost ==
    /\ sele = << >> /\ stick_radius = 25 /\ vdw = << >> /\ color = << >>
    /\ rep = << >> /\ tmp_dict = EmptyDict /\ memo_at_draw = EmptyDict
    /\ calls = << >> /\ out = "" /\ last = NoCommand /\ ncalls = 0

\* a session after load(): the structure is loaded, nothing is styled yet
Init ==
    /\ sele = << >>
    /\ stick_radius = 25
    /\ vdw = [a \in AtomIds |-> 150]
    /\ \E c \in {"green", "blue"} : color = [a \in AtomIds |-> c]
    /\ rep = [a \in AtomIds |-> IF color[a] = "green" THEN {"lines"}
                                 ELSE {"spheres", "sticks"}]
    /\ tmp_dict = EmptyDict
    /\ memo_at_draw = EmptyDict
    /\ calls = << >>
    /\ out = ""
    /\ last = NoCommand
    /\ ncalls = 0
    /\ IdleVdw /\ IdleStore /\ IdleMain

Next ==
    \/ \E style \in Styles, selection \in Selections : Do_mt_nice(style, selection)
    \/ \E delete \in {"None", "delete", "bogus"} : Do_mt_sele(delete)

\* sessions of mt_nice and mt_sele commands
Spec == Init /\ [][Next]_vars

NextColor ==
    \E method \in Methods, selection \in ColorSelections : Do_mt_color(method, selection)

\* sessions of mt_color commands
SpecColor == Init /\ [][NextColor]_vars

(***************************************************************************)
(* alter_vdw alone, on every bead code of up to MaxCodeLen characters.     *)
(***************************************************************************)
CodeChars == {"Q", "C", "S", "T", "W", "1", "-"}

Codes == UNION {[1..n -> CodeChars] : n \in 0..MaxCodeLen}

Do_alter_vdw ==
    /\ vdw_result = -1
    /\ vdw_result' = alter_vdw(vdw_elem, vdw_fallback)
    /\ UNCHANGED <<vdw_elem, vdw_fallback, hostvars, storevars, mainvars>>

InitVdw ==
    /\ vdw_elem \in Codes
    /\ vdw_fallback \in {150, 235, 470}
    /\ vdw_result = -1
    /\ IdleHost /\ IdleStore /\ IdleMain

SpecVdw == InitVdw /\ [][Do_alter_vdw]_vars

(***************************************************************************)
(* Properties of mt_nice, mt_sele and mt_color.                            *)
(***************************************************************************)
\* the step is the command op
Ran(op) == last'.op = op /\ ncalls' = ncalls + 1

InGroup(a, g) == g \in DOMAIN sele /\ a \in sele[g]

\* C1: mt_nice with a preset name outside {clean, rainbow, balls} reports an
\* error and changes nothing in the host: no selection is created or deleted,
\* stick_radius, every radius, color and representation stay, and no host call
\* is issued.
C1_BadPresetNoMutation ==
    [][(Ran("mt_nice") /\ last'.arg \notin {"clean", "rainbow", "balls"}) =>
          /\ out' = "Error: not a valid option"
          /\ calls' = << >>
          /\ UNCHANGED <<sele, stick_radius, vdw, color, rep>>]_vars

\* a bad preset name was given in a session that had already styled the system
C1_Witness ==
    /\ last.op = "mt_nice" /\ last.arg = "bogus"
    /\ out = "Error: not a valid option"
    /\ ncalls = 2 /\ InGroup(1, "BB") /\ rep[1] = {"sticks"}

\* C2: after mt_nice('clean', sel), every atom of sel in SC shows no
\* representation, and every atom of sel in BB shows sticks only and has a
\* palette color, equal for BB atoms of sel of the same chain.
C2_CleanHidesSCSticksBB ==
    (last.op = "mt_nice" /\ last.arg = "clean") =>
        \A a \in SelAtoms(last.sel) :
            /\ InGroup(a, "SC") => rep[a] = {}
            /\ InGroup(a, "BB") =>
                  /\ rep[a] = {"sticks"}
                  /\ color[a] \in mt_colors
                  /\ \A b \in SelAtoms(last.sel) :
                        (InGroup(b, "BB") /\ Atoms[a].chain = Atoms[b].chain)
                            => color[a] = color[b]

\* clean was applied to a system shown as spheres by an earlier balls preset
C2_Witness ==
    /\ last.op = "mt_nice" /\ last.arg = "clean" /\ last.sel = "all" /\ ncalls = 2
    /\ InGroup(3, "SC") /\ rep[3] = {}
    /\ InGroup(1, "BB") /\ InGroup(2, "BB") /\ rep[1] = {"sticks"}
    /\ color[1] = color[2] /\ color[1] \in mt_colors
    /\ color[3] = "red"

Mutating == {"select", "delete", "set", "alter", "color", "show_as", "hide",
             "remove", "load", "load_traj", "do", "run"}

\* C5: every mutating host call is followed by a sync before the next mutating
\* host call is issued.
C5_SyncAfterEveryMutation ==
    \A i \in 1..Len(calls) : \A j \in (i + 1)..Len(calls) :
        (calls[i] \in Mutating /\ calls[j] \in Mutating)
            => \E k \in (i + 1)..(j - 1) : calls[k] = "sync"

RuledGroups(a, style, slot) ==
    {g \in DOMAIN sele' : a \in sele'[g] /\
        (IF slot = "color_method" THEN mt_nice_set(style, g).color_method
         ELSE mt_nice_set(style, g).style) # None}

\* C9: mt_nice(p, sel) with a valid preset changes the color (representation)
\* of an atom only if the atom is in sel and in a selector group whose color
\* (style) rule for p is present, and changes no radius outside sel.
C9_NiceFrame ==
    [][(Ran("mt_nice") /\ last'.arg \in {"clean", "rainbow", "balls"}) =>
          \A a \in AtomIds :
              /\ color'[a] # color[a] =>
                    (a \in SelAtoms(last'.sel)
                     /\ RuledGroups(a, last'.arg, "color_method") # {})
              /\ rep'[a] # rep[a] =>
                    (a \in SelAtoms(last'.sel) /\ RuledGroups(a, last'.arg, "style") # {})
              /\ a \notin SelAtoms(last'.sel) => vdw'[a] = vdw[a]]_vars

\* clean on chain A: the protein atom in no styled group keeps color and
\* representation, the SC atom keeps its color, the atoms outside stay as they were
C9_Witness ==
    /\ last.op = "mt_nice" /\ last.arg = "clean" /\ last.sel = "chain A" /\ ncalls = 1
    /\ color[4] = "green" /\ rep[4] = {"lines"}
    /\ color[3] = "green" /\ rep[3] = {}
    /\ color[5] = "green" /\ rep[5] = {"lines"} /\ vdw[5] = 150
    /\ color[1] \in mt_colors

\* the registry's enumeration order
RegistryOrder == <<"prot", "BB", "SC", "solv", "ions", "lip", "nucl">>

\* the rule of the last group, in the registry's order, that holds atom a and
\* has the slot's rule for style (None when no group has)
LastRule(a, style, slot) ==
    LET Rule(i) == IF slot = "color_method"
                   THEN mt_nice_set(style, RegistryOrder[i]).color_method
                   ELSE mt_nice_set(style, RegistryOrder[i]).style
        has == {i \in 1..Len(RegistryOrder) :
                    InGroup(a, RegistryOrder[i]) /\ Rule(i) # None}
    IN  IF has = {} THEN None
        ELSE Rule(CHOOSE i \in has : \A k \in has : k <= i)

\* C10: after mt_nice(p, sel) with a valid preset, an atom of sel has the color
\* and the representation of the last group, in the order prot, BB, SC, solv,
\* ions, lip, nucl, that holds it and has the rule; so after rainbow or balls an
\* atom of sel of residue ION has a palette color, not blue, and an atom of sel
\* of residue W or WN is blue.
C10_LastGroupWins ==
    (last.op = "mt_nice" /\ last.arg \in {"clean", "rainbow", "balls"}) =>
        \A a \in SelAtoms(last.sel) :
            LET c == LastRule(a, last.arg, "color_method")
                r == LastRule(a, last.arg, "style")
            IN  /\ (c # None /\ c[1] = "color") => color[a] = c[2]
                /\ (c # None /\ c[1] = "mt_color") => color[a] \in mt_colors
                /\ (r # None /\ r[1] = "show_as") => rep[a] = {r[2]}
                /\ (r # None /\ r[1] = "hide") => rep[a] = {}
                /\ last.arg \in {"rainbow", "balls"} =>
                      /\ Atoms[a].resn = "ION" =>
                            (color[a] \in mt_colors /\ color[a] # "blue")
                      /\ Atoms[a].resn \in {"W", "WN"} => color[a] = "blue"

\* rainbow on a system that was all blue: the ion is in solv and in ions
C10_Witness ==
    /\ last.op = "mt_nice" /\ last.arg = "rainbow" /\ last.sel = "all"
    /\ InGroup(6, "solv") /\ InGroup(6, "ions") /\ InGroup(5, "solv")
    /\ color[6] \in mt_colors /\ color[5] = "blue" /\ rep[6] = {"nb_spheres"}

\* C4: after mt_color(method, sel), the atoms of sel with the same value of
\* method have the same color, a palette handle; the memo was empty when the
\* drawing started and is empty when the call has returned.
C4_SameValueSameColor ==
    last.op = "mt_color" =>
        /\ \A a \in SelAtoms(last.sel) :
              /\ color[a] \in mt_colors
              /\ \A b \in SelAtoms(last.sel) :
                    Attr(last.arg, a) = Attr(last.arg, b) => color[a] = color[b]
        /\ memo_at_draw = EmptyDict
        /\ tmp_dict = EmptyDict

\* a second mt_color by residue name on chain A: the two LYS atoms agree, the
\* ALA atom has another color
C4_Witness ==
    /\ last.op = "mt_color" /\ last.arg = "resn" /\ last.sel = "chain A" /\ last.again
    /\ color[1] = color[3] /\ color[1] # color[2] /\ color[2] \in mt_colors

(***************************************************************************)
(* Properties of alter_vdw.                                                *)
(***************************************************************************)
\* rule 1 on the code e: a letter of Q, P, N, C, X and then a character of
\* second, or W
IsRegular(e, second) ==
    \/ Len(e) >= 2 /\ e[1] \in {"Q", "P", "N", "C", "X"} /\ e[2] \in second
    \/ Len(e) >= 1 /\ e[1] = "W"

\* the radius the three rules give, where the second character of a regular
\* bead is one of second
RuleRadius(e, fallback, second) ==
    IF IsRegular(e, second) THEN 235
    ELSE IF Len(e) >= 1 /\ e[1] = "S" /\ IsRegular(Tail(e), second) THEN 200
    ELSE IF Len(e) >= 1 /\ e[1] = "T" /\ IsRegular(Tail(e), second) THEN 165
    ELSE fallback

\* C3: alter_vdw returns a radius for every bead code and fallback: 2.35 when the
\* code starts with a letter of Q, P, N, C, X and then a word character (a
\* letter, a digit or the underscore), or starts with W; 2.00 when it starts
\* with S and then such a code; 1.65 when it starts with T and then such a
\* code; the fallback, unchanged, in every other case.
C3_RadiusByPrefix ==
    vdw_result # -1 => vdw_result = RuleRadius(vdw_elem, vdw_fallback, WordChars)

\* a small bead: S, then a regular code
C3_Witness == vdw_elem = <<"S", "C", "1">> /\ vdw_result = R_small /\ vdw_fallback = 470

\* C3 as stated: the letter of Q, P, N, C, X is followed by one more character,
\* whichever it is.
C3_AnySecondCharacter ==
    vdw_result # -1 => vdw_result = RuleRadius(vdw_elem, vdw_fallback, CodeChars)

(***************************************************************************)
(* store_settings.  Names, values and file names are sequences of           *)
(* characters; a value carries its Python type.                            *)
(***************************************************************************)
SettingNames == {<<"f", "o", "g">>, <<"a", "b">>, <<"x">>}

SettingValues == {[type |-> "str", v |-> <<"o", "n">>],
                  [type |-> "int", v |-> <<"1">>],
                  [type |-> "float", v |-> <<"0", ".", "5">>]}

Filenames == {<<"s", ".", "p", "y">>, <<"s", ".", "t", "x", "t">>, <<".", "p", "y">>}

\* os.path.splitext(filename)[1]: from the last dot on, unless only dots precede it
splitext_ext(filename) ==
    LET dots == {i \in 1..Len(filename) : filename[i] = "."}
        k == CHOOSE i \in dots : \A j \in dots : j <= i
    IN  IF dots = {} THEN << >>
        ELSE IF \A j \in 1..(k - 1) : filename[j] = "." THEN << >>
        ELSE SubSeq(filename, k, Len(filename))

get_setting(setting) == setting_value[setting]

\* settings_dict, its items in insertion order
settings_dict ==
    [i \in 1..Len(name_list) |-> [key |-> name_list[i], value |-> get_setting(name_list[i])]]

\* iter(settings_dict): a dict iterates over its keys
dict_iter(d) == [i \in DOMAIN d |-> d[i].key]

Header == [kind |-> "comment", setting |-> << >>, quoted |-> FALSE, literal |-> << >>]

\* print(f'cmd.set("{setting}", "{value}")') and print(f'cmd.set("{setting}", {value})')
SetLine(setting, value, quoted) ==
    [kind |-> "set", setting |-> setting, quoted |-> quoted, literal |-> value.v]

\* the body of the loop for items[i] onwards: each item is unpacked into
\* setting, value; an item that is a string unpacks into its characters
RECURSIVE write_items(_, _, _)
write_items(lines, items, i) ==
    IF i > Len(items) THEN [lines |-> lines, raised |-> NoError]
    ELSE IF Len(items[i]) # 2
    THEN [lines |-> lines, raised |-> [kind |-> "ValueError: unpack", about |-> items[i]]]
    ELSE LET setting == <<items[i][1]>>
             value == [type |-> "str", v |-> <<items[i][2]>>]
         IN  IF value.type = "str"
             THEN write_items(Append(lines, SetLine(setting, value, TRUE)), items, i + 1)
             ELSE IF value.type = "int"
             THEN write_items(Append(lines, SetLine(setting, value, FALSE)), items, i + 1)
             ELSE [lines |-> lines,
                   raised |-> [kind |-> "ValueError: neither a string nor an int",
                               about |-> value.v]]

store_settings(filename) ==
    IF splitext_ext(filename) # <<".", "p", "y">>
    THEN [file |-> [NoFile EXCEPT !.name = filename],
          raised |-> [kind |-> "TypeError", about |-> filename]]
    ELSE LET written == write_items(<<Header>>, dict_iter(settings_dict), 1)
         IN  [file |-> [name |-> filename, exists |-> TRUE, lines |-> written.lines],
              raised |-> written.raised]

Do_store_settings(filename) ==
    /\ file.name = << >>
    /\ file' = store_settings(filename).file
    /\ raised' = store_settings(filename).raised
    /\ UNCHANGED <<name_list, setting_value, hostvars, vdwvars, mainvars>>

\* sequences of distinct names
NameLists ==
    UNION {{l \in [1..n -> SettingNames] : \A i, j \in 1..n : l[i] = l[j] => i = j}
              : n \in 0..MaxSettings}

InitStore ==
    /\ name_list \in NameLists
    /\ setting_value \in [{name_list[i] : i \in 1..Len(name_list)} -> SettingValues]
    /\ file = NoFile /\ raised = NoError
    /\ IdleHost /\ IdleVdw /\ IdleMain

NextStore == \E filename \in Filenames : Do_store_settings(filename)

SpecStore == InitStore /\ [][NextStore]_vars

\* store_settings was given a .py file and has ended
Exported == file.name # << >> /\ splitext_ext(file.name) = <<".", "p", "y">>

Writable(value) == value.type \in {"str", "int"}

\* C6: store_settings on settings with a value that is neither a string nor an
\* integer ends with the error about that value and has written no statement
\* for that setting; on settings whose values are all strings or integers it
\* ends without an error, the file holding, after the header, one statement per
\* setting, in order, that sets the setting to its value, quoted when a string.
C6_ExportOneStatementEach ==
    Exported =>
        LET bad == {i \in 1..Len(name_list) : ~Writable(get_setting(name_list[i]))}
        IN  IF bad # {}
            THEN /\ raised.kind = "ValueError: neither a string nor an int"
                 /\ \E i \in bad : raised.about = get_setting(name_list[i]).v
                 /\ \A k \in 2..Len(file.lines) : \A i \in bad :
                        file.lines[k].setting # name_list[i]
            ELSE /\ raised = NoError
                 /\ Len(file.lines) = Len(name_list) + 1
                 /\ \A i \in 1..Len(name_list) :
                        file.lines[i + 1] =
                            SetLine(name_list[i], get_setting(name_list[i]),
                                    get_setting(name_list[i]).type = "str")

(***************************************************************************)
(* The launcher, stir.py main.  pc is the position in main: "parse" before  *)
(* parse_args, "ask" at input(), "launch" after the memory gate, "done" at  *)
(* the end of main, "exited" after exit().                                  *)
(***************************************************************************)
Upper == <<"Y", "E", "S", "N", "O">>
Lowercase == <<"y", "e", "s", "n", "o">>

\* the answer as typed, str.lower left out
as_typed(str) == str

\* str.lower, character by character
lower(str) ==
    [i \in 1..Len(str) |->
        IF \E k \in 1..Len(Upper) : Upper[k] = str[i]
        THEN Lowercase[CHOOSE k \in 1..Len(Upper) : Upper[k] = str[i]]
        ELSE str[i]]

Answers == {<<"y">>, <<"Y">>, <<"y", "e", "s">>, <<"Y", "E", "S">>, <<"Y", "e", "s">>,
            <<"n">>, <<"N">>, <<"n", "o">>, <<"N", "O">>, << >>,
            <<"q">>, <<"n", "o", "p", "e">>, <<"y", "e">>}

ArgSets == [valid : BOOLEAN, traj : 0..MaxTraj, enough_ram : BOOLEAN,
            keepwater : BOOLEAN, runtool : 0..1, scripts : 0..1]

\* n times the calls of one round of a loop
RECURSIVE Times(_, _)
Times(n, round) == IF n = 0 THEN << >> ELSE round \o Times(n - 1, round)

\* the host calls of main from finish_launching to the end
main_calls(a) ==
    <<"finish_launching", "extend", "sync", "load", "sync", "get_object_list">>
    \o (IF a.traj > 0 THEN Times(a.traj, <<"sync", "load_traj">>) \o <<"sync">> ELSE << >>)
    \o (IF ~a.keepwater THEN <<"remove">> ELSE << >>)
    \o <<"do", "sync", "do", "sync">>
    \o Times(a.runtool, <<"do", "sync">>)
    \o Times(a.scripts, <<"run", "sync">>)
    \o <<"extend", "sync">>

\* parse_args, then the memory gate
main_parse ==
    /\ pc = "parse"
    /\ IF ~args.valid
       THEN pc' = "exited" /\ exit_status' = 2 /\ out' = "help"
       ELSE /\ pc' = IF args.traj > 0 /\ ~args.enough_ram THEN "ask" ELSE "launch"
            /\ UNCHANGED <<exit_status, out>>
    /\ UNCHANGED <<args, asked, launched, calls>>
    /\ UNCHANGED <<sele, stick_radius, vdw, color, rep, tmp_dict, memo_at_draw, last, ncalls>>
    /\ UNCHANGED <<vdwvars, storevars>>

\* one round of the while loop: inp is what input() returned
main_answer(inp) ==
    /\ pc = "ask"
    /\ Len(asked) < MaxAsk
    /\ asked' = Append(asked, inp)
    /\ IF lower(inp) \in {<<"y", "e", "s">>, <<"y">>}
       THEN pc' = "launch" /\ UNCHANGED <<exit_status, out>>
       ELSE IF lower(inp) \in {<<"n", "o">>, <<"n">>, << >>}
       THEN pc' = "exited" /\ exit_status' = 0 /\ out' = "help"
       ELSE pc' = "ask" /\ out' = "ERROR: not a valid choice" /\ UNCHANGED exit_status
    /\ UNCHANGED <<args, launched, calls>>
    /\ UNCHANGED <<sele, stick_radius, vdw, color, rep, tmp_dict, memo_at_draw, last, ncalls>>
    /\ UNCHANGED <<vdwvars, storevars>>

\* the rest of main
main_run ==
    /\ pc = "launch"
    /\ pc' = "done"
    /\ launched' = TRUE
    /\ calls' = main_calls(args)
    /\ out' = "stir_help"
    /\ UNCHANGED <<args, asked, exit_status>>
    /\ UNCHANGED <<sele, stick_radius, vdw, color, rep, tmp_dict, memo_at_draw, last, ncalls>>
    /\ UNCHANGED <<vdwvars, storevars>>

InitMain ==
    /\ pc = "parse"
    /\ args \in ArgSets
    /\ asked = << >> /\ launched = FALSE /\ exit_status = -1
    /\ IdleHost /\ IdleVdw /\ IdleStore

NextMain == main_parse \/ (\E inp \in Answers : main_answer(inp)) \/ main_run

SpecMain == InitMain /\ [][NextMain]_vars

Yes(inp) == inp \in {<<"y">>, <<"Y">>} \/
            (Len(inp) = 3 /\ inp[1] \in {"y", "Y"} /\ inp[2] \in {"e", "E"} /\ inp[3] \in {"s", "S"})
No(inp) == inp \in {<<"n">>, <<"N">>, << >>} \/
           (Len(inp) = 2 /\ inp[1] \in {"n", "N"} /\ inp[2] \in {"o", "O"})
LowMemory == args.valid /\ args.traj > 0 /\ ~args.enough_ram

\* C7: with a trajectory and too little memory, no host call is made and the host
\* is not launched before the last answer is y or yes in any case; once the
\* last answer is n, no (in any case) or empty, the launcher has exited with
\* status 0, the host not launched and nothing loaded; while the last answer is
\* anything else, the error is reported and the launcher is still asking,
\* neither launched nor exited.
C7_ConfirmBeforeLaunch ==
    (LowMemory /\ pc # "parse") =>
        /\ (launched \/ calls # << >> \/ pc \in {"launch", "done"})
               => (asked # << >> /\ Yes(asked[Len(asked)]))
        /\ asked = << >> => (pc = "ask" /\ exit_status = -1)
        /\ asked # << >> =>
              LET inp == asked[Len(asked)]
              IN  /\ No(inp) => (pc = "exited" /\ exit_status = 0 /\ ~launched
                                 /\ calls = << >>)
                  /\ Yes(inp) => (pc \in {"launch", "done"} /\ exit_status = -1)
                  /\ (~Yes(inp) /\ ~No(inp)) =>
                        (pc = "ask" /\ out = "ERROR: not a valid choice"
                         /\ ~launched /\ exit_status = -1 /\ calls = << >>)
        /\ \A i \in 1..(Len(asked) - 1) : ~Yes(asked[i]) /\ ~No(asked[i])

\* an invalid answer, then YES: the host is launched and the trajectory loaded
C7_Witness ==
    /\ LowMemory /\ pc = "done" /\ launched
    /\ asked = << <<"q">>, <<"Y", "E", "S">> >>
    /\ \E i \in 1..Len(calls) : calls[i] = "load_traj"

====
